---- MODULE Spec2Model ----
(***************************************************************************)
(* Parts-sales spreadsheet importer (importPartsSalesXlsx and its helpers  *)
(* normalizeHeader, buildHeaderMap, CanonicalRowSchema).                   *)
(*                                                                         *)
(* Strings are sequences of UTF-16 code units (integers), so trimming,     *)
(* whitespace removal, colon unification, sorting and JSON serialisation   *)
(* are computed character by character.  undefined / NULL is the empty     *)
(* tuple <<>> and a present optional value v is the one-element tuple      *)
(* <<v>>.  Sheet cells are text cells (strings); sheet_to_json pads every  *)
(* row to the width of the sheet with "".                                  *)
(***************************************************************************)
EXTENDS Integers, Sequences, FiniteSets, TLC

(***************************************************************************)
(* Bounds of the model.                                                    *)
(***************************************************************************)
MaxImports == 2
MaxTotalRows == 5
MaxHeaders == 3

(***************************************************************************)
(* Optional values.                                                        *)
(***************************************************************************)
Undefined == <<>>
Some(v) == <<v>>
IsDefined(o) == o # <<>>

(***************************************************************************)
(* JavaScript string primitives.                                           *)
(***************************************************************************)
\* The characters matched by \s and stripped by String.prototype.trim.
WhiteSpace == {9, 10, 11, 12, 13, 32, 160, 5760, 8232, 8233, 8239, 8287, 12288, 65279}
                \cup (8192..8202)

RECURSIVE trimStart(_)
trimStart(s) ==
    IF s = <<>> THEN <<>>
    ELSE IF Head(s) \in WhiteSpace THEN trimStart(Tail(s)) ELSE s

RECURSIVE trimEnd(_)
trimEnd(s) ==
    IF s = <<>> THEN <<>>
    ELSE IF s[Len(s)] \in WhiteSpace THEN trimEnd(SubSeq(s, 1, Len(s) - 1)) ELSE s

\* String.prototype.trim
trim(s) == trimEnd(trimStart(s))

\* .replace(/\s+/g, "")
removeWhiteSpace(s) == SelectSeq(s, LAMBDA c : c \notin WhiteSpace)

\* Variant: the fullwidth colon becomes a colon followed by a space.
RECURSIVE replaceColonSpaced(_)
replaceColonSpaced(s) ==
    IF s = <<>> THEN <<>>
    ELSE (IF Head(s) = 65306 THEN <<58, 32>> ELSE <<Head(s)>>) \o replaceColonSpaced(Tail(s))

\* .replace(/：/g, ":")   (U+FF1A FULLWIDTH COLON -> U+003A)
replaceColon(s) == [k \in 1..Len(s) |-> IF s[k] = 65306 THEN 58 ELSE s[k]]

\* Lexicographic order on code units: the default comparator of Array.prototype.sort.
RECURSIVE strLess(_, _)
strLess(a, b) ==
    IF b = <<>> THEN FALSE
    ELSE IF a = <<>> THEN TRUE
    ELSE IF Head(a) # Head(b) THEN Head(a) < Head(b)
    ELSE strLess(Tail(a), Tail(b))

\* Insert one string into a sorted array of strings.
RECURSIVE sortInsert(_, _)
sortInsert(x, sorted) ==
    IF sorted = <<>> THEN <<x>>
    ELSE IF strLess(x, Head(sorted)) THEN <<x>> \o sorted
    ELSE <<Head(sorted)>> \o sortInsert(x, Tail(sorted))

\* Variant: the array is left in its given order.
sortLeftUnsorted(arr) == arr

\* [...arr].sort()
RECURSIVE sort(_)
sort(arr) ==
    IF arr = <<>> THEN <<>> ELSE sortInsert(Head(arr), sort(Tail(arr)))

\* A lowercase hexadecimal digit, and the escape \uXXXX of a code unit.
hexDigit(n) == IF n < 10 THEN 48 + n ELSE 87 + n

unicodeEscape(c) ==
    <<92, 117, hexDigit(c \div 4096), hexDigit((c \div 256) % 16),
      hexDigit((c \div 16) % 16), hexDigit(c % 16)>>

isHighSurrogate(c) == c \in 55296..56319
isLowSurrogate(c) == c \in 56320..57343

\* QuoteJSONString without the surrounding quotes: " and \ get a backslash,
\* backspace, tab, line feed, form feed and carriage return their short
\* escape, every other code unit below U+0020 and every lone surrogate its
\* \uXXXX escape; a surrogate pair and everything else is copied.
RECURSIVE jsonEscape(_)
jsonEscape(s) ==
    IF s = <<>> THEN <<>>
    ELSE LET c == Head(s)
         IN  IF isHighSurrogate(c) /\ Len(s) >= 2 /\ isLowSurrogate(s[2])
             THEN <<c, s[2]>> \o jsonEscape(Tail(Tail(s)))
             ELSE (CASE c \in {34, 92} -> <<92, c>>
                     [] c = 8 -> <<92, 98>>
                     [] c = 9 -> <<92, 116>>
                     [] c = 10 -> <<92, 110>>
                     [] c = 12 -> <<92, 102>>
                     [] c = 13 -> <<92, 114>>
                     [] c < 32 \/ isHighSurrogate(c) \/ isLowSurrogate(c) -> unicodeEscape(c)
                     [] OTHER -> <<c>>)
                  \o jsonEscape(Tail(s))

jsonString(s) == <<34>> \o jsonEscape(s) \o <<34>>

RECURSIVE jsonJoin(_)
jsonJoin(arr) ==
    IF arr = <<>> THEN <<>>
    ELSE IF Len(arr) = 1 THEN jsonString(arr[1])
    ELSE jsonString(Head(arr)) \o <<44>> \o jsonJoin(Tail(arr))

\* JSON.stringify of an array of strings.
JSONstringify(arr) == <<91>> \o jsonJoin(arr) \o <<93>>

\* crypto.createHash("sha256").update(text).digest("hex"): the digest is a
\* deterministic function of the text and is taken to be collision free, so
\* it is represented by a tagged copy of the text it was computed from.
sha256hex(text) == [sha256 |-> text]

(***************************************************************************)
(* Header aliases.                                                         *)
(***************************************************************************)
\* Object.entries(headerAliases) order.
Fields == <<"branchCode", "checkoutNo", "itemId", "workOrderNo", "partNo", "partName",
            "qty", "saleAmount", "costAmount", "advisorName", "salesName">>

FieldSet == {Fields[k] : k \in 1..Len(Fields)}

headerAliases ==
    [ branchCode  |-> << <<25818, 40670>>,                \* 據點
                         <<24288, 21029>>,                \* 廠別
                         <<26381, 21209, 24288>> >>,      \* 服務廠
      checkoutNo  |-> << <<32080, 24115, 21934, 34399>>,  \* 結帳單號
                         <<32080, 31639, 21934, 34399>> >>, \* 結算單號
      itemId      |-> << <<38917, 30446, 73, 68>>,        \* 項目ID
                         <<38917, 30446, 73, 100>>,       \* 項目Id
                         <<38917, 27425>> >>,             \* 項次
      workOrderNo |-> << <<24037, 21934, 34399>>,         \* 工單號
                         <<24037, 20316, 21934, 34399>>,  \* 工作單號
                         <<24037, 20316, 21934, 34399, 30908>> >>, \* 工作單號碼
      partNo      |-> << <<38646, 20214, 32232, 34399>>,  \* 零件編號
                         <<26009, 34399>> >>,             \* 料號
      partName    |-> << <<38646, 20214, 21517, 31281>>,  \* 零件名稱
                         <<21697, 21517>> >>,             \* 品名
      qty         |-> << <<37559, 21806, 25976, 37327>>,  \* 銷售數量
                         <<25976, 37327>>,                \* 數量
                         <<25976, 37327, 40, 37559, 21806, 41>> >>, \* 數量(銷售)
      saleAmount  |-> << <<23526, 38555, 21806, 20729>>,  \* 實際售價
                         <<37559, 21806, 37329, 38989>>,  \* 銷售金額
                         <<21806, 20729>> >>,             \* 售價
      costAmount  |-> << <<25104, 26412, 32317, 20729>>,  \* 成本總價
                         <<25104, 26412, 37329, 38989>>,  \* 成本金額
                         <<25104, 26412>> >>,             \* 成本
      advisorName |-> << <<25509, 24453, 20154, 21729>>,  \* 接待人員
                         <<26381, 21209, 39015, 21839>>,  \* 服務顧問
                         <<39015, 21839>> >>,             \* 顧問
      salesName   |-> << <<37559, 21806, 20154, 21729>>,  \* 銷售人員
                         <<38646, 20214, 37559, 21806>>,  \* 零件銷售
                         <<37559, 21806>> >> ]            \* 銷售

(***************************************************************************)
(* normalizeHeader and buildHeaderMap.                                     *)
(***************************************************************************)
normalizeHeader(s) == replaceColon(removeWhiteSpace(trim(s)))

\* aliases.map(normalizeHeader) of each canonical field, as a set.
normAliases ==
    [ canonical \in FieldSet |->
        { normalizeHeader(headerAliases[canonical][k]) :
            k \in 1..Len(headerAliases[canonical]) } ]

\* Object.values(headerAliases).flat().map(normalizeHeader), as a set.
allNormAliases == UNION { normAliases[f] : f \in FieldSet }

\* Variant: the last match instead of the first.
findLastIndex(normHeaders, canonical) ==
    LET hits == { k \in 1..Len(normHeaders) : normHeaders[k] \in normAliases[canonical] }
    IN  IF hits = {} THEN -1
        ELSE (CHOOSE k \in hits : \A j \in hits : k >= j) - 1

\* normHeaders.findIndex(h => aliases.map(normalizeHeader).includes(h)):
\* the 0-based index of the first match, -1 when there is none.
findIndex(normHeaders, canonical) ==
    LET hits == { k \in 1..Len(normHeaders) : normHeaders[k] \in normAliases[canonical] }
    IN  IF hits = {} THEN -1
        ELSE (CHOOSE k \in hits : \A j \in hits : k <= j) - 1

\* Variant: the raw header text is looked up among the aliases.
isUnknownHeaderRaw(h) == h \notin allNormAliases

\* The filter predicate of `unknown`.
isUnknownHeader(h) == normalizeHeader(h) \notin allNormAliases

buildHeaderMap(headers) ==
    LET normHeaders == [k \in 1..Len(headers) |-> normalizeHeader(headers[k])]
        mapped == { f \in FieldSet : findIndex(normHeaders, f) >= 0 }
    IN  [ map |-> [f \in mapped |-> findIndex(normHeaders, f)],
          unknown |-> SelectSeq(headers, isUnknownHeader),
          normHeaders |-> normHeaders ]

\* The requiredKeys literal.
requiredKeys == <<"branchCode", "checkoutNo", "itemId", "partNo">>

\* Variant: itemId is not among the required keys.
missingRequiredOfWithoutItemId(map) ==
    SelectSeq(<<"branchCode", "checkoutNo", "partNo">>, LAMBDA k : k \notin DOMAIN map)

\* requiredKeys.filter(k => map[k] === undefined)
missingRequiredOf(map) == SelectSeq(requiredKeys, LAMBDA k : k \notin DOMAIN map)

\* sha256 over JSON.stringify([...normHeaders].sort())
headerSignatureOf(normHeaders) == sha256hex(JSONstringify(sort(normHeaders)))

(***************************************************************************)
(* CanonicalRowSchema.                                                     *)
(***************************************************************************)
\* The value of a string of decimal digits.
RECURSIVE digitsValue(_)
digitsValue(s) ==
    IF s = <<>> THEN 0
    ELSE digitsValue(SubSeq(s, 1, Len(s) - 1)) * 10 + (s[Len(s)] - 48)

isDigits(s) == s # <<>> /\ \A k \in 1..Len(s) : s[k] \in 48..57

\* A JavaScript number.  A finite one is the decimal m * 10^e with m not a
\* multiple of ten (0 is m = 0, e = 0), written with the digits JavaScript
\* prints for the double; inf is 1 for Infinity, -1 for -Infinity and 0
\* otherwise.  -0 is 0.  Digit strings of up to ten digits are covered: the
\* rounding of longer ones to 53 bits is not modelled.
finite(m, e) == [inf |-> 0, m |-> m, e |-> e]
infinite(sign) == [inf |-> sign, m |-> 0, e |-> 0]

RECURSIVE decimalDigitsOf(_)
decimalDigitsOf(n) == IF n < 10 THEN 1 ELSE 1 + decimalDigitsOf(n \div 10)

RECURSIVE pow10(_)
pow10(n) == IF n = 0 THEN 1 ELSE 10 * pow10(n - 1)

\* m * 10^e with the trailing zeros of m moved into the exponent.
RECURSIVE normalForm(_, _)
normalForm(m, e) ==
    IF m = 0 THEN finite(0, 0)
    ELSE IF m % 10 = 0 THEN normalForm(m \div 10, e + 1)
    ELSE finite(m, e)

\* Natural numbers of any size, as their digits in base 10000 from the
\* lowest up; zero is the empty sequence.
RECURSIVE natOf(_)
natOf(n) == IF n = 0 THEN <<>> ELSE <<n % 10000>> \o natOf(n \div 10000)

RECURSIVE intOf(_)
intOf(x) == IF x = <<>> THEN 0 ELSE Head(x) + 10000 * intOf(Tail(x))

RECURSIVE natAdd(_, _, _)
natAdd(x, y, carry) ==
    IF x = <<>> /\ y = <<>> THEN natOf(carry)
    ELSE LET sum == (IF x = <<>> THEN 0 ELSE Head(x))
                        + (IF y = <<>> THEN 0 ELSE Head(y)) + carry
         IN  <<sum % 10000>> \o natAdd(IF x = <<>> THEN <<>> ELSE Tail(x),
                                        IF y = <<>> THEN <<>> ELSE Tail(y),
                                        sum \div 10000)

\* x * 10000^n and the integer part of x / 10000^n.
natTimesPow(x, n) == IF x = <<>> THEN <<>> ELSE [k \in 1..n |-> 0] \o x
natDivPow(x, n) == SubSeq(x, n + 1, Len(x))

\* x times a digit 1..9999.
RECURSIVE natTimesDigit(_, _, _)
natTimesDigit(x, dgt, carry) ==
    IF x = <<>> THEN natOf(carry)
    ELSE LET prod == Head(x) * dgt + carry
         IN  <<prod % 10000>> \o natTimesDigit(Tail(x), dgt, prod \div 10000)

RECURSIVE natTimes(_, _)
natTimes(x, y) ==
    IF x = <<>> \/ y = <<>> THEN <<>>
    ELSE natAdd(IF Head(y) = 0 THEN <<>> ELSE natTimesDigit(x, Head(y), 0),
                natTimesPow(natTimes(x, Tail(y)), 1), 0)

\* The integer part of x / 2.
natHalf(x) == natDivPow(natTimes(x, <<5000>>), 1)

natLess(x, y) ==
    IF Len(x) # Len(y) THEN Len(x) < Len(y)
    ELSE \E k \in 1..Len(x) :
            /\ x[k] < y[k]
            /\ \A j \in (k + 1)..Len(x) : x[j] = y[j]

\* The first ten digits of 2^1024 - 2^970 = 1.797693134862315807...e308,
\* half way between the largest double and 2^1024: a value rounds to
\* Infinity from there on.  No decimal of ten digits equals it.
overflowDigits == 1797693134

\* The first n digits of a number of ten digits.
leadingDigits(digits10, n) == digits10 \div pow10(10 - n)

\* The spacing of the doubles below 2^-1022 is 2^-1074 =
\* 4.94065645841246544176568792868221...e-324.  ulp is its first 33 digits,
\* that is 2^-1074 in units of 1e-324 times 10000^ulpScale, cut off.  The
\* decimals compared with its multiples have at most ten digits and are
\* never that close to one.
ulp == <<8221, 9286, 5687, 4176, 4654, 8412, 5645, 9406, 4>>
ulpScale == 8

\* The integer parts of j * 2^-1074 and of half of it, in units of 1e-324.
ulpsNat(j) == natDivPow(natTimes(ulp, natOf(j)), ulpScale)
halfUlps(j) == intOf(natHalf(ulpsNat(j)))

\* a * 10^-s units of 1e-324 lie above (k - 1/2) * 2^-1074, so that the
\* value rounds to k * 2^-1074 or higher.
reachesUlps(a, s, k) ==
    \/ k = 0
    \/ natLess(natTimes(natTimes(ulp, natOf(2 * k - 1)), natOf(pow10(s))),
                natTimesPow(natTimes(natOf(a), <<2>>), ulpScale))

\* The k for which k * 2^-1074 is the double nearest to a * 10^-s units of
\* 1e-324, by bisection between low, which the value reaches, and high,
\* which it does not.
RECURSIVE nearestUlps(_, _, _, _)
nearestUlps(a, s, low, high) ==
    IF high - low = 1 THEN low
    ELSE LET mid == (low + high) \div 2
         IN  IF reachesUlps(a, s, mid) THEN nearestUlps(a, s, mid, high)
             ELSE nearestUlps(a, s, low, mid)

RECURSIVE significantDigitsOf(_)
significantDigitsOf(n) ==
    IF n % 10 = 0 THEN significantDigitsOf(n \div 10) ELSE decimalDigitsOf(n)

\* The decimal JavaScript prints for k * 2^-1074, in units of 1e-324: of
\* the decimals that round to this double, the one with the fewest
\* significant digits and, among those, the nearest to it.
shortestOf(k) ==
    LET lowest == halfUlps(2 * k - 1) + 1
        highest == halfUlps(2 * k + 1)
        below == halfUlps(2 * k)
        upperHalf == Head(ulpsNat(2 * k)) % 2 = 1
        far(n) == IF n <= below
                  THEN 2 * (below - n) + (IF upperHalf THEN 1 ELSE 0)
                  ELSE 2 * (n - below - 1) + (IF upperHalf THEN 0 ELSE 1)
        better(n1, n2) ==
            \/ significantDigitsOf(n1) < significantDigitsOf(n2)
            \/ /\ significantDigitsOf(n1) = significantDigitsOf(n2)
               /\ far(n1) < far(n2)
    IN  CHOOSE n \in lowest..highest :
            \A x \in (lowest..highest) \ {n} : better(n, x)

\* The double nearest to m * 10^e, as the decimal JavaScript prints for it.
\* From 2^1024 - 2^970 up it is +-Infinity.  A decimal whose last digit
\* stands at 1e-323 or higher is printed as written, the doubles lying
\* closer together than such decimals.  Below that the value is rounded to
\* a multiple of 2^-1074, to 0 when it is at most half of it.
decimal(m, e) ==
    LET n == normalForm(m, e)
        a == IF n.m < 0 THEN 0 - n.m ELSE n.m
        sign == IF m < 0 THEN -1 ELSE 1
        magnitude == n.e + decimalDigitsOf(a) - 1
    IN  IF n.m = 0 THEN n
        ELSE IF \/ magnitude > 308
                \/ /\ magnitude = 308
                   /\ a > leadingDigits(overflowDigits, decimalDigitsOf(a))
        THEN infinite(sign)
        ELSE IF magnitude < -324 THEN finite(0, 0)
        ELSE IF n.e >= -323 THEN n
        ELSE CHOOSE v \in { IF k = 0 THEN finite(0, 0)
                             ELSE normalForm(sign * shortestOf(k), -324) :
                                k \in {nearestUlps(a, -324 - n.e, 0, 536870912)} } : TRUE

\* The first position of s holding a code unit of S, 0 when there is none.
indexOf(s, S) ==
    LET hits == { k \in 1..Len(s) : s[k] \in S }
    IN  IF hits = {} THEN 0 ELSE CHOOSE k \in hits : \A j \in hits : k <= j

\* The value of a digit of a hexadecimal, octal or binary literal.
digitOf(c) == IF c \in 48..57 THEN c - 48
              ELSE IF c \in 97..102 THEN c - 87
              ELSE IF c \in 65..70 THEN c - 55
              ELSE 99

RECURSIVE radixValue(_, _)
radixValue(s, radix) ==
    IF s = <<>> THEN 0
    ELSE radixValue(SubSeq(s, 1, Len(s) - 1), radix) * radix + digitOf(s[Len(s)])

\* The radix of a NonDecimalIntegerLiteral prefix 0x, 0o, 0b (either case).
radixOf(t) ==
    IF Len(t) >= 2 /\ t[1] = 48
    THEN (CASE t[2] \in {120, 88} -> 16
            [] t[2] \in {111, 79} -> 8
            [] t[2] \in {98, 66} -> 2
            [] OTHER -> 0)
    ELSE 0

notANumber == [nan |-> TRUE, value |-> finite(0, 0)]
number(v) == [nan |-> FALSE, value |-> v]

\* StrUnsignedDecimalLiteral: Infinity, or digits with an optional fraction
\* and an optional exponent (digits. , digits.digits , .digits , digits).
unsignedDecimal(body, sign) ==
    IF body = <<73, 110, 102, 105, 110, 105, 116, 121>> THEN number(infinite(sign))
    ELSE LET ePos == indexOf(body, {101, 69})
             mantissa == IF ePos = 0 THEN body ELSE SubSeq(body, 1, ePos - 1)
             exponent == IF ePos = 0 THEN <<>> ELSE SubSeq(body, ePos + 1, Len(body))
             expDigits == IF exponent # <<>> /\ exponent[1] \in {43, 45}
                          THEN Tail(exponent) ELSE exponent
             expOk == ePos = 0 \/ isDigits(expDigits)
             expValue == IF ePos = 0 \/ ~expOk THEN 0
                         ELSE IF exponent[1] = 45 THEN 0 - digitsValue(expDigits)
                         ELSE digitsValue(expDigits)
             dot == indexOf(mantissa, {46})
             intPart == IF dot = 0 THEN mantissa ELSE SubSeq(mantissa, 1, dot - 1)
             fracPart == IF dot = 0 THEN <<>> ELSE SubSeq(mantissa, dot + 1, Len(mantissa))
             mantissaOk == /\ intPart = <<>> \/ isDigits(intPart)
                           /\ fracPart = <<>> \/ isDigits(fracPart)
                           /\ intPart # <<>> \/ fracPart # <<>>
         IN  IF mantissaOk /\ expOk
             THEN number(decimal(sign * digitsValue(intPart \o fracPart),
                                 expValue - Len(fracPart)))
             ELSE notANumber

\* Number(s), the StringToNumber conversion that z.coerce.number() applies:
\* white space is trimmed; the empty string is 0; an unsigned 0x, 0o or 0b
\* literal is its integer; an optionally signed decimal literal or Infinity
\* is its value; anything else is NaN.
Number(s) ==
    LET t == trim(s)
    IN  IF t = <<>> THEN number(finite(0, 0))
        ELSE IF radixOf(t) # 0
        THEN (IF Len(t) >= 3 /\ \A k \in 3..Len(t) : digitOf(t[k]) < radixOf(t)
              THEN number(decimal(radixValue(SubSeq(t, 3, Len(t)), radixOf(t)), 0))
              ELSE notANumber)
        ELSE IF t[1] = 43 THEN unsignedDecimal(Tail(t), 1)
        ELSE IF t[1] = 45 THEN unsignedDecimal(Tail(t), -1)
        ELSE unsignedDecimal(t, 1)

\* z.string().min(1)
minOneFields == {"branchCode", "checkoutNo", "itemId", "partNo"}
\* z.coerce.number().optional()
coerceNumberFields == {"qty", "saleAmount", "costAmount"}

\* The zod releases the import of "zod" may resolve to; which one is fixed
\* by the build.
ZodApis == {"v3", "v4"}

\* z.number() on the coerced value: NaN is refused; Infinity and -Infinity
\* are accepted by zod 3 and refused by zod 4.
numberAccepted(api, n) == ~n.nan /\ (n.value.inf = 0 \/ api = "v3")

\* Variant: numbers are coerced but NaN is let through.
safeParseAcceptingNaN(api, rawObj) ==
    LET success == \A f \in minOneFields : f \in DOMAIN rawObj /\ Len(rawObj[f]) >= 1
    IN  [ success |-> success,
          data |-> IF success
                   THEN [f \in DOMAIN rawObj |->
                            IF f \in coerceNumberFields THEN Number(rawObj[f]).value
                            ELSE rawObj[f]]
                   ELSE <<>> ]

\* CanonicalRowSchema.safeParse(rawObj).  A key missing from rawObj is
\* undefined: it fails z.string().min(1) and passes every .optional().
safeParse(api, rawObj) ==
    LET success ==
            /\ \A f \in minOneFields : f \in DOMAIN rawObj /\ Len(rawObj[f]) >= 1
            /\ \A f \in coerceNumberFields \cap DOMAIN rawObj :
                    numberAccepted(api, Number(rawObj[f]))
    IN  [ success |-> success,
          data |-> IF success
                   THEN [f \in DOMAIN rawObj |->
                            IF f \in coerceNumberFields THEN Number(rawObj[f]).value
                            ELSE rawObj[f]]
                   ELSE <<>> ]

(***************************************************************************)
(* Row decoding.                                                           *)
(***************************************************************************)
\* Variant: cells are compared with "" without trimming.
isBlankRowUntrimmed(r) == \A k \in 1..Len(r) : r[k] = <<>>

\* r.every(v => String(v ?? "").trim() === "")
isBlankRow(r) == \A k \in 1..Len(r) : trim(r[k]) = <<>>

\* rawObj[canonical] = String(r[idx] ?? "").trim() for every entry of map.
rawObjOf(map, r) == [f \in DOMAIN map |-> trim(r[map[f] + 1])]

\* The property name "__proto__": on the object literal {} an assignment to
\* it runs the setter of Object.prototype, which ignores a primitive value
\* and creates no own property.
protoKey == <<95, 95, 112, 114, 111, 116, 111, 95, 95>>

\* headers.forEach((h, idx) => ...) over the first n columns: a later
\* assignment to unknownObj[h] replaces an earlier one, and an assignment
\* to unknownObj["__proto__"] stores nothing.
RECURSIVE unknownObjUpTo(_, _, _, _)
unknownObjUpTo(headers, unknown, r, n) ==
    IF n = 0 THEN <<>>
    ELSE LET prev == unknownObjUpTo(headers, unknown, r, n - 1)
             h == headers[n]
             includes == \E k \in 1..Len(unknown) : unknown[k] = h
         IN  IF includes /\ trim(r[n]) # <<>> /\ h # protoKey
             THEN [x \in DOMAIN prev \cup {h} |-> IF x = h THEN r[n] ELSE prev[x]]
             ELSE prev

unknownObjOf(headers, unknown, r) == unknownObjUpTo(headers, unknown, r, Len(headers))

\* Variant: rows are numbered from the first data row, starting at 0.
stagingRowOfDataIndex(batchId, i, headers, hm, r) ==
    LET unknownObj == unknownObjOf(headers, hm.unknown, r)
    IN  [ batchId |-> batchId,
          rowIndex |-> i - 1,
          data |-> rawObjOf(hm.map, r),
          unknown |-> IF DOMAIN unknownObj # {} THEN Some(unknownObj) ELSE Undefined ]

\* The record passed to prisma.stagingRow.create.
stagingRowOf(batchId, i, headers, hm, r) ==
    LET unknownObj == unknownObjOf(headers, hm.unknown, r)
    IN  [ batchId |-> batchId,
          rowIndex |-> i,
          data |-> rawObjOf(hm.map, r),
          unknown |-> IF DOMAIN unknownObj # {} THEN Some(unknownObj) ELSE Undefined ]

(***************************************************************************)
(* Canonical upsert.                                                       *)
(***************************************************************************)
\* d.<field>: undefined when the key is absent from the parsed data.
get(d, f) == IF f \in DOMAIN d THEN Some(d[f]) ELSE Undefined

\* d.workOrderNo && d.branchCode ? `${d.branchCode}_${d.workOrderNo}` : undefined
workOrderKeyOf(d) ==
    IF /\ "workOrderNo" \in DOMAIN d /\ d["workOrderNo"] # <<>>
       /\ "branchCode" \in DOMAIN d /\ d["branchCode"] # <<>>
    THEN Some(d["branchCode"] \o <<95>> \o d["workOrderNo"])
    ELSE Undefined

\* The `update` argument of the upsert.
updateOf(d) ==
    [ workOrderNo  |-> get(d, "workOrderNo"),
      workOrderKey |-> workOrderKeyOf(d),
      partNo       |-> get(d, "partNo"),
      partName     |-> get(d, "partName"),
      qty          |-> get(d, "qty"),
      saleAmount   |-> get(d, "saleAmount"),
      costAmount   |-> get(d, "costAmount"),
      advisorName  |-> get(d, "advisorName"),
      salesName    |-> get(d, "salesName") ]

\* The `create` argument of the upsert.
createOf(batchId, d) ==
    [ batchId      |-> batchId,
      branchCode   |-> d["branchCode"],
      checkoutNo   |-> d["checkoutNo"],
      itemId       |-> d["itemId"],
      workOrderNo  |-> get(d, "workOrderNo"),
      workOrderKey |-> workOrderKeyOf(d),
      partNo       |-> get(d, "partNo"),
      partName     |-> get(d, "partName"),
      qty          |-> get(d, "qty"),
      saleAmount   |-> get(d, "saleAmount"),
      costAmount   |-> get(d, "costAmount"),
      advisorName  |-> get(d, "advisorName"),
      salesName    |-> get(d, "salesName") ]

\* The business key of a row (the `where` argument).
tripleOf(x) == <<x["branchCode"], x["checkoutNo"], x["itemId"]>>

\* Variant: an existing row is left as it is (insert, on conflict do nothing).
upsertKeepingFirst(table, where, update, create) ==
    IF \E k \in 1..Len(table) : tripleOf(table[k]) = where
    THEN table
    ELSE Append(table, create)

\* Variant: an existing row is replaced by the `create` record.
upsertReplacingRow(table, where, update, create) ==
    IF \E k \in 1..Len(table) : tripleOf(table[k]) = where
    THEN [k \in 1..Len(table) |-> IF tripleOf(table[k]) = where THEN create ELSE table[k]]
    ELSE Append(table, create)

\* Variant: a plain create.
upsertAlwaysCreating(table, where, update, create) == Append(table, create)

\* prisma.partsSalesLine.upsert on the table: the row with the unique key
\* is updated, an undefined field of `update` leaving the column as it is;
\* when there is no such row, `create` is inserted, its undefined fields NULL.
upsert(table, where, update, create) ==
    LET found == { k \in 1..Len(table) : tripleOf(table[k]) = where }
    IN  IF found # {}
        THEN LET k == CHOOSE k \in found : TRUE
             IN  [table EXCEPT ![k] =
                    [a \in DOMAIN table[k] |->
                        IF a \in DOMAIN update /\ IsDefined(update[a])
                        THEN update[a] ELSE table[k][a]]]
        ELSE Append(table, create)

\* Variant: one error is tolerated.
finalStatusToleratingOne(errorCount) == IF errorCount > 1 THEN "STAGED" ELSE "TRANSFORMED"

\* status: errorCount > 0 ? ImportStatus.STAGED : ImportStatus.TRANSFORMED
finalStatus(errorCount) == IF errorCount > 0 THEN "STAGED" ELSE "TRANSFORMED"

\* Variant: only the empty sheet is refused.
noDataRowsOnlyEmpty(rows) == Len(rows) < 1

\* rows.length < 2
noDataRows(rows) == Len(rows) < 2

(***************************************************************************)
(* Uploaded sheets.  A sheet is the 2D array returned by sheet_to_json:    *)
(* the header row followed by the data rows.  The sheets are built from a  *)
(* few reports; a report has a column layout (for each column its header   *)
(* text and the datum shown in it) and the lines that may appear in it.    *)
(***************************************************************************)
\* A01 / C100 / 1, complete, quantity "12.5"
lineA ==
    [ branch |-> <<65, 48, 49>>, checkout |-> <<67, 49, 48, 48>>, item |-> <<49>>,
      part |-> <<80, 45, 57>>, part2 |-> <<80, 45, 48>>, wo |-> <<87, 49>>,
      qty |-> <<49, 50, 46, 53>>, memo |-> <<32, 120, 32>>, memo2 |-> <<121>> ]
\* the same key with padding, another part, no work order, no quantity
lineB ==
    [ branch |-> <<65, 48, 49>>, checkout |-> <<67, 49, 48, 48, 32>>, item |-> <<32, 49>>,
      part |-> <<80, 45, 55>>, part2 |-> <<>>, wo |-> <<>>,
      qty |-> <<>>, memo |-> <<>>, memo2 |-> <<122>> ]
\* A01 / C100 / 2, quantity "abc"
lineC ==
    [ branch |-> <<65, 48, 49>>, checkout |-> <<67, 49, 48, 48>>, item |-> <<50>>,
      part |-> <<80, 45, 57>>, part2 |-> <<>>, wo |-> <<87, 50>>,
      qty |-> <<97, 98, 99>>, memo |-> <<>>, memo2 |-> <<>> ]
\* nothing but empty and white-space cells
lineD ==
    [ branch |-> <<>>, checkout |-> <<32>>, item |-> <<>>,
      part |-> <<>>, part2 |-> <<>>, wo |-> <<>>,
      qty |-> <<32, 32>>, memo |-> <<>>, memo2 |-> <<>> ]
\* item id left blank
lineE ==
    [ branch |-> <<65, 48, 49>>, checkout |-> <<67, 49, 48, 48>>, item |-> <<32>>,
      part |-> <<80, 45, 57>>, part2 |-> <<>>, wo |-> <<>>,
      qty |-> <<45, 53>>, memo |-> <<121>>, memo2 |-> <<>> ]

Reports ==
    { \* every column this importer reads that the report has, a second
      \* part-number column, two columns sharing an unknown header
      [ layout |->
          << <<<<25818, 40670>>, "branch">>,                  \* 據點
             <<<<32080, 24115, 21934, 34399>>, "checkout">>,  \* 結帳單號
             <<<<38917, 30446, 73, 68>>, "item">>,            \* 項目ID
             <<<<26009, 34399>>, "part">>,                    \* 料號
             <<<<38646, 20214, 32232, 34399>>, "part2">>,     \* 零件編號
             <<<<24037, 21934, 34399>>, "wo">>,               \* 工單號
             <<<<25976, 37327>>, "qty">>,                     \* 數量
             <<<<20633, 35387>>, "memo">>,                    \* 備註
             <<<<20633, 35387>>, "memo2">> >>,                \* 備註
        lines |-> {lineA, lineB, lineC, lineD} ],
      \* required columns only (one header padded with a space), one unknown column
      [ layout |->
          << <<<<32, 25818, 40670>>, "branch">>,              \* " 據點"
             <<<<32080, 31639, 21934, 34399>>, "checkout">>,  \* 結算單號
             <<<<38917, 27425>>, "item">>,                    \* 項次
             <<<<26009, 34399>>, "part">>,                    \* 料號
             <<<<20633, 35387, 65306>>, "memo">> >>,          \* 備註：
        lines |-> {lineA, lineC, lineE} ],
      \* no item-id column
      [ layout |->
          << <<<<25818, 40670>>, "branch">>,                  \* 據點
             <<<<32080, 24115, 21934, 34399>>, "checkout">>,  \* 結帳單號
             <<<<26009, 34399>>, "part">>,                    \* 料號
             <<<<25976, 37327>>, "qty">> >>,                  \* 數量
        lines |-> {lineA, lineD} ] }

RECURSIVE SeqsUpTo(_, _)
SeqsUpTo(S, n) ==
    IF n = 0 THEN {<<>>}
    ELSE LET shorter == SeqsUpTo(S, n - 1)
         IN  shorter \cup { Append(q, x) : q \in { t \in shorter : Len(t) = n - 1 }, x \in S }

headerRow(layout) == [k \in 1..Len(layout) |-> layout[k][1]]
dataRow(layout, line) == [k \in 1..Len(layout) |-> line[layout[k][2]]]

\* The empty sheet, and every report with its header row and any data rows,
\* up to MaxTotalRows rows in all.
Sheets ==
    {<<>>} \cup
    UNION { { <<headerRow(rep.layout)>> \o [k \in 1..Len(ls) |-> dataRow(rep.layout, ls[k])] :
                ls \in SeqsUpTo(rep.lines, MaxTotalRows - 1) } : rep \in Reports }

(***************************************************************************)
(* State.                                                                  *)
(***************************************************************************)
Procs == {1, 2}

VARIABLES
    importBatch,      \* the ImportBatch table; a batch's id is its position
    stagingRow,       \* the StagingRow table, in creation order
    partsSalesLine,   \* the PartsSalesLine (canonical) table
    calls,            \* the calls of importPartsSalesXlsx so far: sheet and outcome
    pc,               \* where each running import stands
    rows,             \* locals of each running import ...
    i,
    batch,
    hm,               \* { map, unknown, normHeaders }
    missingRequired,
    errorCount,
    stagedCount,
    canonicalCount,
    d,                \* parsed.data of the row about to be upserted
    built             \* header analysis of a header row on its own

tables == <<importBatch, stagingRow, partsSalesLine>>
locals == <<rows, i, batch, hm, missingRequired, errorCount, stagedCount, canonicalCount, d>>
vars == <<importBatch, stagingRow, partsSalesLine, calls, pc, rows, i, batch, hm,
          missingRequired, errorCount, stagedCount, canonicalCount, d, built>>

noHeaderMap == [map |-> <<>>, unknown |-> <<>>, normHeaders |-> <<>>]

Init ==
    /\ importBatch = <<>>
    /\ stagingRow = <<>>
    /\ partsSalesLine = <<>>
    /\ calls = <<>>
    /\ pc = [p \in Procs |-> "idle"]
    /\ rows = [p \in Procs |-> <<>>]
    /\ i = [p \in Procs |-> 0]
    /\ batch = [p \in Procs |-> 0]
    /\ hm = [p \in Procs |-> noHeaderMap]
    /\ missingRequired = [p \in Procs |-> <<>>]
    /\ errorCount = [p \in Procs |-> 0]
    /\ stagedCount = [p \in Procs |-> 0]
    /\ canonicalCount = [p \in Procs |-> 0]
    /\ d = [p \in Procs |-> <<>>]
    /\ built = Undefined

\* The number of sheet rows uploaded so far, header rows included.
RECURSIVE uploadedRows(_)
uploadedRows(cs) == IF cs = <<>> THEN 0 ELSE Len(Head(cs).rows) + uploadedRows(Tail(cs))

\* The sheets of each length.
SheetsOfLen == [n \in 0..MaxTotalRows |-> { sheet \in Sheets : Len(sheet) = n }]

\* The sheets p may upload next within the bounds: p is not running an
\* import, fewer than MaxImports uploads were made, and the rows uploaded
\* stay within MaxTotalRows.
uploadable(p) ==
    IF pc[p] = "idle" /\ Len(calls) < MaxImports
    THEN UNION { SheetsOfLen[n] : n \in 0..(MaxTotalRows - uploadedRows(calls)) }
    ELSE {}

\* The locals of an import are gone once it has returned or thrown.
forget(p) ==
    /\ rows' = [rows EXCEPT ![p] = <<>>]
    /\ i' = [i EXCEPT ![p] = 0]
    /\ batch' = [batch EXCEPT ![p] = 0]
    /\ hm' = [hm EXCEPT ![p] = noHeaderMap]
    /\ missingRequired' = [missingRequired EXCEPT ![p] = <<>>]
    /\ errorCount' = [errorCount EXCEPT ![p] = 0]
    /\ stagedCount' = [stagedCount EXCEPT ![p] = 0]
    /\ canonicalCount' = [canonicalCount EXCEPT ![p] = 0]
    /\ d' = [d EXCEPT ![p] = <<>>]

(***************************************************************************)
(* importPartsSalesXlsx, one action per stretch between two awaits.        *)
(***************************************************************************)
\* A sheet with fewer than two rows: throw before anything is persisted.
ImportThrow(p) ==
    \E sheet \in uploadable(p) :
        /\ pc[p] = "idle"
        /\ noDataRows(sheet)
        /\ calls' = Append(calls, [rows |-> sheet, batchId |-> 0, threw |-> TRUE,
                                   returned |-> Undefined])
        /\ UNCHANGED <<tables, pc, locals, built>>

\* Header map, missing required fields, header signature, importBatch.create.
ImportCreateBatch(p) ==
    \E sheet \in uploadable(p) :
        /\ pc[p] = "idle"
        /\ ~noDataRows(sheet)
        /\ LET headers == sheet[1]
               h == buildHeaderMap(headers)
               id == Len(importBatch) + 1
           IN  /\ importBatch' = Append(importBatch,
                      [ id |-> id,
                        reportType |-> "parts_sales",
                        mappingVersion |-> "v1",
                        headerSignature |-> headerSignatureOf(h.normHeaders),
                        headerColumns |-> headers,
                        unknownColumns |-> h.unknown,
                        status |-> "STAGED",
                        errorCount |-> 0,
                        stagedCount |-> 0,
                        canonicalCount |-> 0 ])
               /\ calls' = Append(calls, [rows |-> sheet, batchId |-> id, threw |-> FALSE,
                                          returned |-> Undefined])
               /\ rows' = [rows EXCEPT ![p] = sheet]
               /\ hm' = [hm EXCEPT ![p] = h]
               /\ missingRequired' = [missingRequired EXCEPT ![p] = missingRequiredOf(h.map)]
               /\ batch' = [batch EXCEPT ![p] = id]
               /\ i' = [i EXCEPT ![p] = 1]
               /\ pc' = [pc EXCEPT ![p] = "loop"]
        /\ UNCHANGED <<stagingRow, partsSalesLine, errorCount, stagedCount,
                       canonicalCount, d, built>>

\* rows[i] of the running import (i is the 0-based index of the code).
r(p) == rows[p][i[p] + 1]
inLoop(p) == pc[p] = "loop" /\ i[p] < Len(rows[p])

\* An all-blank row: continue.
SkipBlankRow(p) ==
    /\ inLoop(p)
    /\ isBlankRow(r(p))
    /\ i' = [i EXCEPT ![p] = i[p] + 1]
    /\ UNCHANGED <<tables, calls, pc, rows, batch, hm, missingRequired,
                   errorCount, stagedCount, canonicalCount, d, built>>

\* stagingRow.create and stagedCount++, common to every non-blank row.
stage(p) ==
    /\ inLoop(p)
    /\ ~isBlankRow(r(p))
    /\ stagingRow' = Append(stagingRow,
                            stagingRowOf(batch[p], i[p], rows[p][1], hm[p], r(p)))
    /\ stagedCount' = [stagedCount EXCEPT ![p] = stagedCount[p] + 1]

\* A required column is missing: the row is an error, continue.
StageMissingRequired(p) ==
    /\ stage(p)
    /\ Len(missingRequired[p]) # 0
    /\ errorCount' = [errorCount EXCEPT ![p] = errorCount[p] + 1]
    /\ i' = [i EXCEPT ![p] = i[p] + 1]
    /\ UNCHANGED <<importBatch, partsSalesLine, calls, pc, rows, batch, hm,
                   missingRequired, canonicalCount, d, built>>

\* Variant: the failed row is not counted as an error.
StageInvalidUncounted(p) ==
    /\ stage(p)
    /\ Len(missingRequired[p]) = 0
    /\ \E api \in ZodApis : ~safeParse(api, rawObjOf(hm[p].map, r(p))).success
    /\ i' = [i EXCEPT ![p] = i[p] + 1]
    /\ UNCHANGED <<importBatch, partsSalesLine, calls, pc, rows, batch, hm,
                   missingRequired, errorCount, canonicalCount, d, built>>

\* safeParse fails: the row is an error, continue.
StageInvalid(p) ==
    /\ stage(p)
    /\ Len(missingRequired[p]) = 0
    /\ \E api \in ZodApis : ~safeParse(api, rawObjOf(hm[p].map, r(p))).success
    /\ errorCount' = [errorCount EXCEPT ![p] = errorCount[p] + 1]
    /\ i' = [i EXCEPT ![p] = i[p] + 1]
    /\ UNCHANGED <<importBatch, partsSalesLine, calls, pc, rows, batch, hm,
                   missingRequired, canonicalCount, d, built>>

\* safeParse succeeds: go on to the upsert.
StageValid(p) ==
    /\ stage(p)
    /\ Len(missingRequired[p]) = 0
    /\ \E api \in ZodApis :
            /\ safeParse(api, rawObjOf(hm[p].map, r(p))).success
            /\ d' = [d EXCEPT ![p] = safeParse(api, rawObjOf(hm[p].map, r(p))).data]
    /\ pc' = [pc EXCEPT ![p] = "upsert"]
    /\ UNCHANGED <<importBatch, partsSalesLine, calls, rows, i, batch, hm,
                   missingRequired, errorCount, canonicalCount, built>>

\* partsSalesLine.upsert and canonicalCount++.
Upsert(p) ==
    /\ pc[p] = "upsert"
    /\ partsSalesLine' = upsert(partsSalesLine, tripleOf(d[p]),
                                updateOf(d[p]), createOf(batch[p], d[p]))
    /\ canonicalCount' = [canonicalCount EXCEPT ![p] = canonicalCount[p] + 1]
    /\ i' = [i EXCEPT ![p] = i[p] + 1]
    /\ d' = [d EXCEPT ![p] = <<>>]
    /\ pc' = [pc EXCEPT ![p] = "loop"]
    /\ UNCHANGED <<importBatch, stagingRow, calls, rows, batch, hm,
                   missingRequired, errorCount, stagedCount, built>>

\* The call that created batch id.
callOf(id) == CHOOSE k \in 1..Len(calls) : calls[k].batchId = id

\* Variant: the final update is issued without waiting for the last row.
FinalizeEarly(p) ==
    /\ pc[p] = "loop"
    /\ importBatch' = [importBatch EXCEPT ![batch[p]] =
            [@ EXCEPT !.status = finalStatus(errorCount[p]),
                      !.errorCount = errorCount[p],
                      !.stagedCount = stagedCount[p],
                      !.canonicalCount = canonicalCount[p]]]
    /\ pc' = [pc EXCEPT ![p] = "return"]
    /\ UNCHANGED <<stagingRow, partsSalesLine, calls, locals, built>>

\* After the last row: await importBatch.update.  The update takes effect and
\* the function stays suspended until the awaited promise resolves.
Finalize(p) ==
    /\ pc[p] = "loop"
    /\ i[p] >= Len(rows[p])
    /\ importBatch' = [importBatch EXCEPT ![batch[p]] =
            [@ EXCEPT !.status = finalStatus(errorCount[p]),
                      !.errorCount = errorCount[p],
                      !.stagedCount = stagedCount[p],
                      !.canonicalCount = canonicalCount[p]]]
    /\ pc' = [pc EXCEPT ![p] = "return"]
    /\ UNCHANGED <<stagingRow, partsSalesLine, calls, locals, built>>

\* The function resumes after the final update and returns the summary.
Return(p) ==
    /\ pc[p] = "return"
    /\ calls' = [calls EXCEPT ![callOf(batch[p])].returned =
            Some([ batchId |-> batch[p],
                   stagedCount |-> stagedCount[p],
                   canonicalCount |-> canonicalCount[p],
                   errorCount |-> errorCount[p],
                   missingRequired |-> missingRequired[p],
                   unknownColumns |-> hm[p].unknown ])]
    /\ pc' = [pc EXCEPT ![p] = "idle"]
    /\ forget(p)
    /\ UNCHANGED <<tables, built>>

\* One step of the import run by p.
Step(p) ==
    \/ ImportThrow(p)
    \/ ImportCreateBatch(p)
    \/ SkipBlankRow(p)
    \/ StageMissingRequired(p)
    \/ StageInvalid(p)
    \/ StageValid(p)
    \/ Upsert(p)
    \/ Finalize(p)
    \/ Return(p)

\* Uploads handled one after the other.
Next == \E p \in {1} : Step(p)

Spec == Init /\ [][Next]_vars

(***************************************************************************)
(* The header analysis on its own: buildHeaderMap, the required-field      *)
(* check and the header signature applied to short header rows.            *)
(***************************************************************************)
HeaderTexts ==
    { <<25818, 40670>>,              \* 據點
      <<32, 25818, 12288, 40670>>,   \* " 據　點"
      <<24288, 21029>>,              \* 廠別
      <<20633, 35387, 65306>>,       \* 備註：
      <<20633, 35387, 58>> }         \* 備註:

HeaderRows == SeqsUpTo(HeaderTexts, MaxHeaders)

\* Lines 111-121 of the import applied to a header row.
analyse(headers) ==
    LET h == buildHeaderMap(headers)
    IN  [ headers |-> headers,
          map |-> h.map,
          unknown |-> h.unknown,
          normHeaders |-> h.normHeaders,
          missingRequired |-> missingRequiredOf(h.map),
          headerSignature |-> headerSignatureOf(h.normHeaders) ]

BuildHeaders(headers) ==
    /\ built' = Some(analyse(headers))
    /\ UNCHANGED <<tables, calls, pc, locals>>

NextHdr == \E headers \in HeaderRows : BuildHeaders(headers)

SpecHdr == Init /\ [][NextHdr]_vars

(***************************************************************************)
(* Imports that may stop half way: the process dies, or an awaited         *)
(* persistence call rejects and the exception leaves importPartsSalesXlsx. *)
(* Either way the writes made so far stay and the locals are gone.  The    *)
(* last point where an import can stop is after its final update has       *)
(* taken effect and before the function returns.                           *)
(***************************************************************************)
Crash(p) ==
    /\ pc[p] \in {"loop", "upsert", "return"}
    /\ pc' = [pc EXCEPT ![p] = "idle"]
    /\ forget(p)
    /\ UNCHANGED <<tables, calls, built>>

NextCrash ==
    \/ \E p \in {1} : Step(p)
    \/ \E p \in {1} : Crash(p)

SpecCrash == Init /\ [][NextCrash]_vars

(***************************************************************************)
(* Two uploads in flight at once: the requests of two clients are served   *)
(* on one event loop, their imports interleaving at every await.  A        *)
(* persistence call is one atomic step.                                    *)
(***************************************************************************)
\* The upload of client p reaches the handler: client 1 uploads first, and
\* client 2 at any moment from then on, each of them one file.
Arrive(p) ==
    /\ Len(calls) = p - 1
    /\ (ImportThrow(p) \/ ImportCreateBatch(p))

NextConc ==
    \E p \in Procs :
        \/ Arrive(p)
        \/ SkipBlankRow(p)
        \/ StageMissingRequired(p)
        \/ StageInvalid(p)
        \/ StageValid(p)
        \/ Upsert(p)
        \/ Finalize(p)
        \/ Return(p)

SpecConc == Init /\ [][NextConc]_vars

(***************************************************************************)
(* Vocabulary of the properties.                                           *)
(***************************************************************************)
finished(k) == IsDefined(calls[k].returned)
returnedOf(k) == calls[k].returned[1]
quiescent == \A p \in Procs : pc[p] = "idle"

\* p took a step of its import.
stepped(p) == <<pc[p], i[p], stagedCount[p], batch[p]>>' # <<pc[p], i[p], stagedCount[p], batch[p]>>

\* Row indexes (counting the header as row 0) of the non-blank data rows.
nonBlankRows(sheet) ==
    { j \in 1..(Len(sheet) - 1) : \E k \in 1..Len(sheet[j + 1]) : trim(sheet[j + 1][k]) # <<>> }

\* The sheet without its blank data rows.
withoutBlankRows(sheet) ==
    IF sheet = <<>> THEN <<>>
    ELSE <<sheet[1]>> \o SelectSeq(Tail(sheet),
                LAMBDA row : \E k \in 1..Len(row) : trim(row[k]) # <<>>)

\* A canonical field is resolved when some header, once normalized, is one
\* of its normalized aliases.
resolved(headers, f) ==
    \E k \in 1..Len(headers) : normalizeHeader(headers[k]) \in normAliases[f]

\* The trimmed cell of field f in a data row: the first column resolving f.
fieldCell(headers, row, f) ==
    LET k == CHOOSE k \in 1..Len(headers) :
                /\ normalizeHeader(headers[k]) \in normAliases[f]
                /\ \A j \in 1..(k - 1) : normalizeHeader(headers[j]) \notin normAliases[f]
    IN  trim(row[k])

allRequiredResolved(headers) == \A f \in minOneFields : resolved(headers, f)

\* Per-row validation failure: a required field empty after trimming, or a
\* non-empty non-numeric quantity or amount.
failsRowValidation(headers, row) ==
    \/ \E f \in minOneFields : fieldCell(headers, row, f) = <<>>
    \/ \E f \in coerceNumberFields :
            /\ resolved(headers, f)
            /\ fieldCell(headers, row, f) # <<>>
            /\ Number(fieldCell(headers, row, f)).nan

\* Data row j of the sheet enters the canonical table.
passes(sheet, j) ==
    /\ allRequiredResolved(sheet[1])
    /\ ~failsRowValidation(sheet[1], sheet[j + 1])

rowTriple(sheet, j) ==
    << fieldCell(sheet[1], sheet[j + 1], "branchCode"),
       fieldCell(sheet[1], sheet[j + 1], "checkoutNo"),
       fieldCell(sheet[1], sheet[j + 1], "itemId") >>

stagedAt(b, j) == { n \in 1..Len(stagingRow) :
                        stagingRow[n].batchId = b /\ stagingRow[n].rowIndex = j }
canonicalAt(t) == { n \in 1..Len(partsSalesLine) : tripleOf(partsSalesLine[n]) = t }

(***************************************************************************)
(* C1.  A file whose rows all pass validation leaves exactly one canonical *)
(* row per distinct (branchCode, checkoutNo, itemId) of the file once its  *)
(* import has returned, after the first import and after the second alike, *)
(* and after two imports of it every non-blank row has two StagingRows,    *)
(* one in each batch.                                                      *)
(***************************************************************************)
allPass(sheet) == \A j \in nonBlankRows(sheet) : passes(sheet, j)

C1_ReimportKeepsOneRowPerKey ==
    /\ \A k \in 1..Len(calls) :
            (finished(k) /\ allPass(calls[k].rows)) =>
                \A j \in nonBlankRows(calls[k].rows) :
                    Cardinality(canonicalAt(rowTriple(calls[k].rows, j))) = 1
    /\ \A k1, k2 \in 1..Len(calls) :
            ( /\ k1 < k2 /\ finished(k1) /\ finished(k2)
              /\ calls[k1].rows = calls[k2].rows
              /\ allPass(calls[k1].rows) ) =>
                \A j \in nonBlankRows(calls[k1].rows) :
                    /\ Cardinality(stagedAt(calls[k1].batchId, j)) = 1
                    /\ Cardinality(stagedAt(calls[k2].batchId, j)) = 1
                    /\ calls[k1].batchId # calls[k2].batchId

\* The same file imported twice: one canonical row, a StagingRow in each batch.
C1_Witness ==
    \E k1, k2 \in 1..Len(calls) :
        /\ k1 < k2 /\ finished(k1) /\ finished(k2)
        /\ calls[k1].rows = calls[k2].rows
        /\ allPass(calls[k1].rows)
        /\ nonBlankRows(calls[k1].rows) # {}
        /\ Len(partsSalesLine) = 1
        /\ Len(stagingRow) = 2
        /\ stagingRow[1].batchId # stagingRow[2].batchId

(***************************************************************************)
(* C2.  Between imports, every non-key attribute of a canonical row equals *)
(* what the most recent validated input row with its key supplies, an      *)
(* attribute that row does not supply being absent.                        *)
(***************************************************************************)
attributes == {"workOrderNo", "workOrderKey", "partNo", "partName", "qty",
               "saleAmount", "costAmount", "advisorName", "salesName"}

validated(n) == \E api \in ZodApis : safeParse(api, stagingRow[n].data).success

\* parsed.data of a validated StagingRow.
parsedData(n) ==
    safeParse(CHOOSE api \in ZodApis : safeParse(api, stagingRow[n].data).success,
              stagingRow[n].data).data

C2_CanonicalReflectsLatestRow ==
    quiescent =>
        \A c \in 1..Len(partsSalesLine) :
            LET sources == { n \in 1..Len(stagingRow) :
                                /\ validated(n)
                                /\ tripleOf(stagingRow[n].data) = tripleOf(partsSalesLine[c]) }
                latest == CHOOSE n \in sources : \A m \in sources : m <= n
                supplied == updateOf(parsedData(latest))
            IN  \A a \in attributes : partsSalesLine[c][a] = supplied[a]

(***************************************************************************)
(* C3.  When a required field (branchCode, checkoutNo, itemId, partNo) has *)
(* no resolved header column, the import issues no canonical upsert, and   *)
(* it returns canonicalCount = 0 and errorCount = stagedCount with every   *)
(* non-blank row staged and missingRequired listing exactly the unresolved *)
(* required fields.                                                        *)
(***************************************************************************)
C3_Returned ==
    \A k \in 1..Len(calls) :
        (finished(k) /\ ~allRequiredResolved(calls[k].rows[1])) =>
            /\ returnedOf(k).canonicalCount = 0
            /\ returnedOf(k).errorCount = returnedOf(k).stagedCount
            /\ returnedOf(k).stagedCount = Cardinality(nonBlankRows(calls[k].rows))
            /\ \A j \in nonBlankRows(calls[k].rows) :
                    Cardinality(stagedAt(calls[k].batchId, j)) = 1
            /\ returnedOf(k).missingRequired =
                    SelectSeq(requiredKeys, LAMBDA f : ~resolved(calls[k].rows[1], f))
            /\ importBatch[calls[k].batchId].canonicalCount = 0
            /\ importBatch[calls[k].batchId].errorCount = returnedOf(k).stagedCount

C3_NoUpsert ==
    \A p \in Procs :
        (pc[p] # "idle" /\ ~allRequiredResolved(rows[p][1])) =>
            /\ pc'[p] # "upsert"
            /\ (stepped(p) => partsSalesLine' = partsSalesLine)

C3_MissingRequiredColumn == [](C3_Returned) /\ [][C3_NoUpsert]_vars

\* A sheet without item-id column, with a row that would otherwise pass.
C3_Witness ==
    \E k \in 1..Len(calls) :
        /\ finished(k)
        /\ returnedOf(k).missingRequired = <<"itemId">>
        /\ returnedOf(k).stagedCount = 1
        /\ Len(calls[k].rows) = 3

(***************************************************************************)
(* C4.  A sheet with fewer than two rows makes the import throw, and it    *)
(* throws without creating or changing any ImportBatch, StagingRow or      *)
(* canonical row.                                                          *)
(***************************************************************************)
C4_Thrown ==
    /\ \A k \in 1..Len(calls) :
            /\ calls[k].threw <=> Len(calls[k].rows) < 2
            /\ calls[k].threw => (calls[k].batchId = 0 /\ ~finished(k))
    /\ Len(importBatch) = Cardinality({ k \in 1..Len(calls) : Len(calls[k].rows) >= 2 })

C4_NothingPersisted ==
    ( /\ Len(calls') = Len(calls) + 1
      /\ Len(calls'[Len(calls')].rows) < 2 ) =>
        /\ importBatch' = importBatch
        /\ stagingRow' = stagingRow
        /\ partsSalesLine' = partsSalesLine

C4_NoDataRows == [](C4_Thrown) /\ [][C4_NothingPersisted]_vars

\* A header-only sheet uploaded after a successful import.
C4_Witness ==
    \E k \in 1..Len(calls) :
        /\ calls[k].threw
        /\ Len(calls[k].rows) = 1
        /\ Len(importBatch) = 1
        /\ Len(stagingRow) >= 1

(***************************************************************************)
(* C5.  Finalization sets TRANSFORMED exactly when errorCount is zero and  *)
(* leaves STAGED when a row was counted as an error: the batch is STAGED   *)
(* while its import is among its rows, and from the final update on,       *)
(* before and after the return, it is TRANSFORMED exactly when no row was  *)
(* counted as an error.  A TRANSFORMED batch has errorCount = 0 and        *)
(* canonicalCount = stagedCount, and never goes back to STAGED.            *)
(***************************************************************************)
C5_Status ==
    /\ \A b \in 1..Len(importBatch) :
            /\ importBatch[b].status \in {"STAGED", "TRANSFORMED"}
            /\ importBatch[b].status = "TRANSFORMED" =>
                    /\ importBatch[b].errorCount = 0
                    /\ importBatch[b].canonicalCount = importBatch[b].stagedCount
    /\ \A k \in 1..Len(calls) :
            finished(k) =>
                /\ importBatch[calls[k].batchId].status = "TRANSFORMED"
                        <=> returnedOf(k).errorCount = 0
                /\ (\E j \in nonBlankRows(calls[k].rows) : ~passes(calls[k].rows, j))
                        => importBatch[calls[k].batchId].status = "STAGED"
    /\ \A p \in Procs :
            /\ pc[p] \in {"loop", "upsert"} => importBatch[batch[p]].status = "STAGED"
            /\ pc[p] = "return" =>
                    /\ importBatch[batch[p]].status = finalStatus(errorCount[p])
                    /\ importBatch[batch[p]].status = "TRANSFORMED" <=> errorCount[p] = 0

C5_NoWayBack ==
    \A b \in 1..Len(importBatch) :
        importBatch[b].status = "TRANSFORMED" => importBatch'[b].status = "TRANSFORMED"

C5_TransformedOnlyWhenClean == [](C5_Status) /\ [][C5_NoWayBack]_vars

\* A clean batch that went to TRANSFORMED and one with a single error that stayed STAGED.
C5_Witness ==
    \E k1, k2 \in 1..Len(calls) :
        /\ finished(k1) /\ finished(k2)
        /\ returnedOf(k1).errorCount = 0 /\ returnedOf(k1).stagedCount >= 1
        /\ importBatch[calls[k1].batchId].status = "TRANSFORMED"
        /\ returnedOf(k2).errorCount = 1
        /\ importBatch[calls[k2].batchId].status = "STAGED"

(***************************************************************************)
(* C6.  A non-blank row that fails per-row validation (required field      *)
(* empty after trimming, or a non-empty non-numeric quantity or amount) is  *)
(* staged, causes no canonical upsert, adds exactly one to errorCount, and  *)
(* the loop goes on with the next row; the import returns with every        *)
(* non-blank row staged and every failing row counted.                      *)
(***************************************************************************)
C6_RowStep ==
    \A p \in Procs :
        ( /\ pc[p] = "loop" /\ i[p] < Len(rows[p])
          /\ i[p] \in nonBlankRows(rows[p])
          /\ allRequiredResolved(rows[p][1])
          /\ failsRowValidation(rows[p][1], rows[p][i[p] + 1])
          /\ stepped(p) ) =>
            /\ Len(stagingRow') = Len(stagingRow) + 1
            /\ SubSeq(stagingRow', 1, Len(stagingRow)) = stagingRow
            /\ stagingRow'[Len(stagingRow')].batchId = batch[p]
            /\ stagingRow'[Len(stagingRow')].rowIndex = i[p]
            /\ partsSalesLine' = partsSalesLine
            /\ errorCount'[p] = errorCount[p] + 1
            /\ stagedCount'[p] = stagedCount[p] + 1
            /\ canonicalCount'[p] = canonicalCount[p]
            /\ pc'[p] = "loop" /\ i'[p] = i[p] + 1 /\ rows'[p] = rows[p]

C6_Returned ==
    /\ \A k \in 1..Len(calls) :
            finished(k) =>
                /\ ~calls[k].threw
                /\ returnedOf(k).stagedCount = Cardinality(nonBlankRows(calls[k].rows))
                /\ allRequiredResolved(calls[k].rows[1]) =>
                        /\ returnedOf(k).errorCount =
                                Cardinality({ j \in nonBlankRows(calls[k].rows) :
                                    failsRowValidation(calls[k].rows[1], calls[k].rows[j + 1]) })
                        /\ returnedOf(k).canonicalCount =
                                Cardinality({ j \in nonBlankRows(calls[k].rows) :
                                    ~failsRowValidation(calls[k].rows[1], calls[k].rows[j + 1]) })
    /\ quiescent => \A k \in 1..Len(calls) : calls[k].threw \/ finished(k)

C6_RowFailureIsSoft == [](C6_Returned) /\ [][C6_RowStep]_vars

\* A failing first row followed by a row that reached the canonical table.
C6_Witness ==
    \E k \in 1..Len(calls) :
        /\ finished(k)
        /\ allRequiredResolved(calls[k].rows[1])
        /\ Len(calls[k].rows) = 3
        /\ failsRowValidation(calls[k].rows[1], calls[k].rows[2])
        /\ returnedOf(k).errorCount = 1
        /\ returnedOf(k).canonicalCount = 1
        /\ Cardinality(stagedAt(calls[k].batchId, 1)) = 1

(***************************************************************************)
(* C7.  A data row of blank and white-space cells produces no StagingRow   *)
(* and no upsert and changes no counter; two sheets that differ only in    *)
(* such rows end with the same three counters and the same batch status.   *)
(***************************************************************************)
C7_BlankStep ==
    \A p \in Procs :
        ( /\ pc[p] = "loop" /\ i[p] < Len(rows[p])
          /\ i[p] \notin nonBlankRows(rows[p])
          /\ stepped(p) ) =>
            /\ stagingRow' = stagingRow
            /\ partsSalesLine' = partsSalesLine
            /\ importBatch' = importBatch
            /\ stagedCount'[p] = stagedCount[p]
            /\ canonicalCount'[p] = canonicalCount[p]
            /\ errorCount'[p] = errorCount[p]
            /\ pc'[p] = "loop" /\ i'[p] = i[p] + 1

C7_SameOutcome ==
    /\ \A k \in 1..Len(calls) :
            ~calls[k].threw =>
                \A j \in (1..(Len(calls[k].rows) - 1)) \ nonBlankRows(calls[k].rows) :
                    stagedAt(calls[k].batchId, j) = {}
    /\ \A k1, k2 \in 1..Len(calls) :
            ( /\ finished(k1) /\ finished(k2)
              /\ withoutBlankRows(calls[k1].rows) = withoutBlankRows(calls[k2].rows) ) =>
                /\ returnedOf(k1).stagedCount = returnedOf(k2).stagedCount
                /\ returnedOf(k1).canonicalCount = returnedOf(k2).canonicalCount
                /\ returnedOf(k1).errorCount = returnedOf(k2).errorCount
                /\ importBatch[calls[k1].batchId].status = importBatch[calls[k2].batchId].status

C7_BlankRowsIgnored == [](C7_SameOutcome) /\ [][C7_BlankStep]_vars

\* The same line imported without and with a blank row before it.
C7_Witness ==
    \E k1, k2 \in 1..Len(calls) :
        /\ finished(k1) /\ finished(k2)
        /\ Len(calls[k1].rows) = 2 /\ Len(calls[k2].rows) = 3
        /\ 1 \notin nonBlankRows(calls[k2].rows)
        /\ withoutBlankRows(calls[k2].rows) = calls[k1].rows
        /\ returnedOf(k2).stagedCount = 1

(***************************************************************************)
(* C8.  For every StagingRow and every column under an unknown header      *)
(* whose cell is non-blank, the unknown mapping holds that cell's original  *)
(* value under the header, two unknown columns with one header text        *)
(* included.                                                               *)
(***************************************************************************)
C8_UnknownCellsRetained ==
    \A n \in 1..Len(stagingRow) :
        LET sheet == calls[callOf(stagingRow[n].batchId)].rows
            headers == sheet[1]
            row == sheet[stagingRow[n].rowIndex + 1]
        IN  \A k \in 1..Len(headers) :
                (isUnknownHeader(headers[k]) /\ trim(row[k]) # <<>>) =>
                    /\ IsDefined(stagingRow[n].unknown)
                    /\ headers[k] \in DOMAIN stagingRow[n].unknown[1]
                    /\ stagingRow[n].unknown[1][headers[k]] = row[k]

(***************************************************************************)
(* C9.  Two header texts of a header row with the same normalized form are *)
(* treated alike by buildHeaderMap: both are listed as unknown or neither  *)
(* is, and each on its own maps to the same canonical field.               *)
(***************************************************************************)
listed(unknown, h) == \E k \in 1..Len(unknown) : unknown[k] = h

C9_SameNormalFormSameTreatment ==
    IsDefined(built) =>
        LET b == built[1]
        IN  \A m, n \in 1..Len(b.headers) :
                normalizeHeader(b.headers[m]) = normalizeHeader(b.headers[n]) =>
                    /\ listed(b.unknown, b.headers[m]) <=> listed(b.unknown, b.headers[n])
                    /\ buildHeaderMap(<<b.headers[m]>>).map = buildHeaderMap(<<b.headers[n]>>).map
                    /\ listed(b.unknown, b.headers[m]) <=>
                            (DOMAIN buildHeaderMap(<<b.headers[m]>>).map = {})

\* A known header and a padded spelling of it in one header row.
C9_Witness ==
    /\ IsDefined(built)
    /\ \E m, n \in 1..Len(built[1].headers) :
            /\ built[1].headers[m] # built[1].headers[n]
            /\ normalizeHeader(built[1].headers[m]) = normalizeHeader(built[1].headers[n])
            /\ "branchCode" \in DOMAIN built[1].map

(***************************************************************************)
(* C10.  The header signature does not depend on the order of the headers: *)
(* every permutation of a header row has the same signature, and two       *)
(* header rows whose normalized headers are not the same up to order have  *)
(* different signatures.                                                   *)
(***************************************************************************)
occurrences(q, x) == Cardinality({ k \in 1..Len(q) : q[k] = x })

isPermutation(q1, q2) ==
    /\ Len(q1) = Len(q2)
    /\ \A k \in 1..Len(q1) : occurrences(q1, q1[k]) = occurrences(q2, q1[k])

C10_SignatureOrderIndependent ==
    IsDefined(built) =>
        \A other \in HeaderRows :
            /\ isPermutation(other, built[1].headers) =>
                    analyse(other).headerSignature = built[1].headerSignature
            /\ ~isPermutation(analyse(other).normHeaders, built[1].normHeaders) =>
                    analyse(other).headerSignature # built[1].headerSignature

\* A header row that is not in sorted order.
C10_Witness ==
    /\ IsDefined(built)
    /\ Len(built[1].headers) >= 2
    /\ \E k \in 1..(Len(built[1].headers) - 1) :
            strLess(built[1].normHeaders[k + 1], built[1].normHeaders[k])

(***************************************************************************)
(* C11.  normalizeHeader is idempotent: normalizing a normalized header    *)
(* returns it unchanged, for the header texts themselves and for the       *)
(* normHeaders that buildHeaderMap computed from them.                     *)
(***************************************************************************)
C11_NormalizeHeaderIdempotent ==
    IsDefined(built) =>
        \A k \in 1..Len(built[1].headers) :
            /\ normalizeHeader(normalizeHeader(built[1].headers[k]))
                    = normalizeHeader(built[1].headers[k])
            /\ normalizeHeader(built[1].normHeaders[k]) = built[1].normHeaders[k]

\* A header row with a padded header and one ending in a fullwidth colon,
\* both changed by normalization.
C11_Witness ==
    /\ IsDefined(built)
    /\ \E m, n \in 1..Len(built[1].headers) :
            /\ built[1].headers[m][1] \in WhiteSpace
            /\ 65306 \in { built[1].headers[n][k] : k \in 1..Len(built[1].headers[n]) }
            /\ built[1].normHeaders[m] # built[1].headers[m]
            /\ built[1].normHeaders[n] # built[1].headers[n]

(***************************************************************************)
(* C12.  The ImportBatch is created STAGED before any StagingRow or        *)
(* canonical row of its import exists, and its record is not touched       *)
(* until every row has been processed.  Every StagingRow and canonical row *)
(* references an existing batch.  An import that stops among its rows, or  *)
(* before its final update takes effect, leaves its batch STAGED for good. *)
(* An import that stops after its final update has taken effect and        *)
(* before it returns leaves the status that update wrote: TRANSFORMED when *)
(* no row was counted as an error.  So the batch of a stopped import is    *)
(* TRANSFORMED only if every non-blank row of its file was staged and      *)
(* entered the canonical table.                                            *)
(***************************************************************************)
\* Batch b belongs to an import that is still running.
running(b) == \E p \in Procs : pc[p] # "idle" /\ batch[p] = b

\* Batch b belongs to an import that is among its rows or about to issue
\* its final update.
midProcessing(b) == \E p \in Procs : pc[p] \in {"loop", "upsert"} /\ batch[p] = b

\* Call k created a batch and stopped before returning.
stopped(k) == ~calls[k].threw /\ ~finished(k) /\ ~running(calls[k].batchId)

\* The rows written so far for batch b.
stagedOf(b) == { n \in 1..Len(stagingRow) : stagingRow[n].batchId = b }
createdBy(b) == { c \in 1..Len(partsSalesLine) : partsSalesLine[c].batchId = b }

\* C12 as stated: wherever an import stops after its batch was created,
\* the batch exists with status STAGED, never TRANSFORMED.
C12_StagedWhereverStopped ==
    \A k \in 1..Len(calls) :
        stopped(k) =>
            /\ calls[k].batchId \in 1..Len(importBatch)
            /\ importBatch[calls[k].batchId].status = "STAGED"

C12_State ==
    /\ \A n \in 1..Len(stagingRow) : stagingRow[n].batchId \in 1..Len(importBatch)
    /\ \A c \in 1..Len(partsSalesLine) : partsSalesLine[c].batchId \in 1..Len(importBatch)
    /\ \A k \in 1..Len(calls) :
            ~calls[k].threw =>
                /\ calls[k].batchId \in 1..Len(importBatch)
                /\ importBatch[calls[k].batchId].status = "TRANSFORMED" =>
                        /\ ~midProcessing(calls[k].batchId)
                        /\ Cardinality(stagedOf(calls[k].batchId))
                                = Cardinality(nonBlankRows(calls[k].rows))
    /\ \A p \in Procs :
            pc[p] \in {"loop", "upsert"} => importBatch[batch[p]].status = "STAGED"
    \* a stopped import whose batch is TRANSFORMED went through every row,
    \* and every row entered the canonical table
    /\ \A k \in 1..Len(calls) :
            (stopped(k) /\ importBatch[calls[k].batchId].status = "TRANSFORMED") =>
                LET sheet == calls[k].rows
                    rec == importBatch[calls[k].batchId]
                IN  /\ rec.errorCount = 0
                    /\ rec.stagedCount = Cardinality(nonBlankRows(sheet))
                    /\ rec.canonicalCount = rec.stagedCount
                    /\ \A j \in nonBlankRows(sheet) :
                            /\ passes(sheet, j)
                            /\ canonicalAt(rowTriple(sheet, j)) # {}

C12_Step ==
    \* creation: a new STAGED record that no row references yet
    /\ Len(importBatch') # Len(importBatch) =>
            /\ Len(importBatch') = Len(importBatch) + 1
            /\ SubSeq(importBatch', 1, Len(importBatch)) = importBatch
            /\ importBatch'[Len(importBatch')].status = "STAGED"
            /\ stagingRow' = stagingRow /\ partsSalesLine' = partsSalesLine
            /\ \A n \in 1..Len(stagingRow) : stagingRow[n].batchId # Len(importBatch')
            /\ \A c \in 1..Len(partsSalesLine) : partsSalesLine[c].batchId # Len(importBatch')
    \* a record changes only when its import has gone through every row
    /\ \A b \in 1..Len(importBatch) :
            importBatch'[b] # importBatch[b] =>
                \E p \in Procs :
                    /\ pc[p] = "loop" /\ batch[p] = b /\ i[p] >= Len(rows[p])
                    /\ Cardinality(stagedOf(b)) = Cardinality(nonBlankRows(rows[p]))
                    /\ pc'[p] = "return"
    \* an import that stops among its rows, or before its final update,
    \* leaves its batch STAGED
    /\ \A p \in Procs :
            (pc[p] \in {"loop", "upsert"} /\ pc'[p] = "idle") =>
                \E k \in 1..Len(calls) :
                    /\ calls[k].batchId = batch[p]
                    /\ stopped(k)'
                    /\ importBatch'[calls[k].batchId].status = "STAGED"
    \* an import that stops between its final update and its return leaves
    \* the status that update wrote
    /\ \A p \in Procs :
            (pc[p] = "return" /\ pc'[p] = "idle") =>
                \E k \in 1..Len(calls) :
                    /\ calls[k].batchId = batch[p]
                    /\ stopped(k)' \/ finished(k)'
                    /\ importBatch'[calls[k].batchId].status = finalStatus(errorCount[p])
    \* the batch of a stopped import is left as it is
    /\ \A k \in 1..Len(calls) :
            stopped(k) => /\ importBatch'[calls[k].batchId] = importBatch[calls[k].batchId]
                          /\ stopped(k)'

C12_BatchFirstAndStagedUntilDone == [](C12_State) /\ [][C12_Step]_vars

\* An import that stopped after staging two rows and upserting one, its
\* batch still STAGED after a later import has stopped between its final
\* update and its return, leaving a TRANSFORMED batch.
C12_Witness ==
    \E k1, k2 \in 1..Len(calls) :
        /\ stopped(k1)
        /\ Cardinality(stagedOf(calls[k1].batchId)) = 2
        /\ Cardinality(createdBy(calls[k1].batchId)) = 1
        /\ importBatch[calls[k1].batchId].status = "STAGED"
        /\ k1 < k2 /\ stopped(k2)
        /\ importBatch[calls[k2].batchId].status = "TRANSFORMED"

(***************************************************************************)
(* C13.  Two imports in flight at once, their persistence calls            *)
(* interleaved in every order, each upsert one atomic step.  The canonical *)
(* table never holds two rows of one triple; an upsert leaves exactly one  *)
(* row of its triple, carrying every attribute value it wrote, and nothing *)
(* else changes the canonical table, so the row of a triple ends with what *)
(* the upsert applied last wrote.  Every StagingRow written is the next    *)
(* non-blank row of its own file under its own batch, so the StagingRows   *)
(* and the counters of a batch are those its own file determines; an       *)
(* upsert can be applied whatever the other import did to the table, and   *)
(* only a sheet without data rows makes an import throw.                   *)
(***************************************************************************)
rowsWith(table, t) == { n \in 1..Len(table) : tripleOf(table[n]) = t }

\* The StagingRows of batch b, in creation order.
ofBatch(b) == SelectSeq(stagingRow, LAMBDA x : x.batchId = b)

\* What the first n data rows of a sheet put into the staging table.
RECURSIVE stagingOfSheet(_, _, _, _)
stagingOfSheet(b, sheet, hmap, n) ==
    IF n = 0 THEN <<>>
    ELSE LET prev == stagingOfSheet(b, sheet, hmap, n - 1)
         IN  IF \E k \in 1..Len(sheet[n + 1]) : trim(sheet[n + 1][k]) # <<>>
             THEN Append(prev, stagingRowOf(b, n, sheet[1], hmap, sheet[n + 1]))
             ELSE prev

isPrefix(q1, q2) == Len(q1) <= Len(q2) /\ SubSeq(q2, 1, Len(q1)) = q1

\* The n-th non-blank data row of a sheet.
nthNonBlank(sheet, n) ==
    CHOOSE j \in nonBlankRows(sheet) :
        Cardinality({ x \in nonBlankRows(sheet) : x <= j }) = n

C13_State ==
    /\ \A c1, c2 \in 1..Len(partsSalesLine) :
            tripleOf(partsSalesLine[c1]) = tripleOf(partsSalesLine[c2]) => c1 = c2
    /\ \A k \in 1..Len(calls) :
            /\ calls[k].threw <=> Len(calls[k].rows) < 2
            /\ ~calls[k].threw =>
                    LET sheet == calls[k].rows
                        b == calls[k].batchId
                        all == stagingOfSheet(b, sheet, buildHeaderMap(sheet[1]),
                                              Len(sheet) - 1)
                        good == { j \in nonBlankRows(sheet) : passes(sheet, j) }
                    IN  /\ Len(ofBatch(b)) <= Cardinality(nonBlankRows(sheet))
                        /\ finished(k) =>
                                /\ ofBatch(b) = all
                                /\ returnedOf(k).stagedCount = Cardinality(nonBlankRows(sheet))
                                /\ returnedOf(k).canonicalCount = Cardinality(good)
                                /\ returnedOf(k).errorCount =
                                        Cardinality(nonBlankRows(sheet) \ good)
                                /\ importBatch[b].stagedCount = returnedOf(k).stagedCount
                                /\ importBatch[b].canonicalCount = returnedOf(k).canonicalCount
                                /\ importBatch[b].errorCount = returnedOf(k).errorCount
                                /\ importBatch[b].status = finalStatus(returnedOf(k).errorCount)
                                /\ \A j \in good :
                                        Cardinality(canonicalAt(rowTriple(sheet, j))) = 1
    /\ \A p \in Procs : pc[p] = "upsert" => ENABLED Upsert(p)
    /\ quiescent => \A k \in 1..Len(calls) : calls[k].threw \/ finished(k)

C13_Step ==
    \* the staging table grows by the next non-blank row of one of the files,
    \* under that file's batch, whatever the other import has written
    /\ stagingRow' # stagingRow =>
            \E k \in 1..Len(calls) :
                LET sheet == calls[k].rows
                    b == calls[k].batchId
                    n == Len(ofBatch(b)) + 1
                IN  /\ ~calls[k].threw
                    /\ n <= Cardinality(nonBlankRows(sheet))
                    /\ stagingRow' = Append(stagingRow,
                            stagingRowOf(b, nthNonBlank(sheet, n), sheet[1],
                                         buildHeaderMap(sheet[1]),
                                         sheet[nthNonBlank(sheet, n) + 1]))
    /\ \A p \in Procs :
            (pc[p] = "upsert" /\ pc'[p] = "loop") =>
                LET t == tripleOf(d[p])
                    u == updateOf(d[p])
                    after == rowsWith(partsSalesLine', t)
                IN  /\ Cardinality(after) = 1
                    /\ \A c \in after : \A a \in attributes :
                            IsDefined(u[a]) => partsSalesLine'[c][a] = u[a]
                    /\ Len(partsSalesLine') =
                            Len(partsSalesLine)
                                + (IF rowsWith(partsSalesLine, t) = {} THEN 1 ELSE 0)
                    /\ \A n \in 1..Len(partsSalesLine) :
                            tripleOf(partsSalesLine[n]) # t
                                => partsSalesLine'[n] = partsSalesLine[n]
    /\ (\A p \in Procs : ~(pc[p] = "upsert" /\ pc'[p] = "loop"))
            => partsSalesLine' = partsSalesLine

C13_ConcurrentImportsLastWriteWins == [](C13_State) /\ [][C13_Step]_vars

\* Both imports in flight after each has upserted the same triple: one row,
\* created by one batch and holding the part number the other wrote.
C13_Witness ==
    /\ pc[1] = "loop" /\ pc[2] = "loop"
    /\ canonicalCount[1] = 1 /\ canonicalCount[2] = 1
    /\ Len(partsSalesLine) = 1
    /\ \E p, q \in Procs :
            /\ p # q
            /\ partsSalesLine[1].batchId = batch[p]
            /\ partsSalesLine[1].partNo # Some(fieldCell(rows[p][1], rows[p][2], "partNo"))
            /\ partsSalesLine[1].partNo = Some(fieldCell(rows[q][1], rows[q][2], "partNo"))
            /\ Len(rows[p]) = 2 /\ Len(rows[q]) = 2

(***************************************************************************)
(* C14.  In every reachable state a canonical row has a workOrderKey only  *)
(* if it has a non-empty workOrderNo, and the key then is the row's        *)
(* branchCode, "_" and the row's workOrderNo; also after the triple was    *)
(* imported again with a blank work-order cell or without the column.      *)
(***************************************************************************)
C14_WorkOrderKeyDerived ==
    \A c \in 1..Len(partsSalesLine) :
        IsDefined(partsSalesLine[c].workOrderKey) =>
            /\ IsDefined(partsSalesLine[c].workOrderNo)
            /\ partsSalesLine[c].workOrderNo[1] # <<>>
            /\ partsSalesLine[c].workOrderKey[1] =
                    partsSalesLine[c].branchCode \o <<95>> \o partsSalesLine[c].workOrderNo[1]

(***************************************************************************)
(* C15.  A later import leaves staging and batch association alone: no     *)
(* step changes an existing StagingRow, the ImportBatch record of an       *)
(* import that is over, or the batchId and key of a canonical row; an      *)
(* upsert of a triple that already has a canonical row changes neither     *)
(* table of StagingRows nor any ImportBatch, and the row's batchId stays   *)
(* the batch that first upserted the triple.                               *)
(***************************************************************************)
C15_State ==
    \A c \in 1..Len(partsSalesLine) :
        LET from == { stagingRow[n].batchId : n \in
                        { m \in 1..Len(stagingRow) :
                            /\ validated(m)
                            /\ tripleOf(stagingRow[m].data) = tripleOf(partsSalesLine[c]) } }
        IN  /\ partsSalesLine[c].batchId \in from
            /\ \A b \in from : partsSalesLine[c].batchId <= b

C15_Step ==
    /\ isPrefix(stagingRow, stagingRow')
    /\ \A b \in 1..Len(importBatch) : ~running(b) => importBatch'[b] = importBatch[b]
    /\ \A n \in 1..Len(partsSalesLine) :
            /\ partsSalesLine'[n].batchId = partsSalesLine[n].batchId
            /\ tripleOf(partsSalesLine'[n]) = tripleOf(partsSalesLine[n])
    /\ \A p \in Procs :
            ( /\ pc[p] = "upsert" /\ pc'[p] = "loop"
              /\ rowsWith(partsSalesLine, tripleOf(d[p])) # {} ) =>
                /\ stagingRow' = stagingRow
                /\ importBatch' = importBatch
                /\ Len(partsSalesLine') = Len(partsSalesLine)

C15_LaterImportLeavesHistory == [](C15_State) /\ [][C15_Step]_vars

\* Two finished batches upserted one triple: the row still belongs to the
\* first batch and holds the part number of the second.
C15_Witness ==
    /\ Len(importBatch) = 2 /\ Len(partsSalesLine) = 1
    /\ \E k1, k2 \in 1..Len(calls) :
            /\ k1 < k2 /\ finished(k1) /\ finished(k2)
            /\ returnedOf(k1).canonicalCount = 1 /\ returnedOf(k2).canonicalCount = 1
            /\ partsSalesLine[1].batchId = calls[k1].batchId
            /\ partsSalesLine[1].partNo =
                    Some(fieldCell(calls[k2].rows[1], calls[k2].rows[2], "partNo"))
            /\ partsSalesLine[1].partNo #
                    Some(fieldCell(calls[k1].rows[1], calls[k1].rows[2], "partNo"))
            /\ Cardinality(stagedOf(calls[k1].batchId)) = 1
            /\ importBatch[calls[k1].batchId].status = "TRANSFORMED"

(***************************************************************************)
(* C16.  First wins.  For the header row of every import and every         *)
(* canonical field, the header map holds the lowest column whose           *)
(* normalized header is a normalized alias of the field, and holds no      *)
(* entry exactly when no header matches.  A later header matching the      *)
(* same field is not listed as unknown, and its cells are in neither the   *)
(* data nor the unknown mapping of a StagingRow: data holds, per mapped    *)
(* field, the trimmed cell of the first matching column, and the unknown   *)
(* mapping holds cells of unknown columns only.                            *)
(***************************************************************************)
\* The columns (1-based) whose normalized header is a normalized alias of f.
matchingIn(headers, f) ==
    { k \in 1..Len(headers) : normalizeHeader(headers[k]) \in normAliases[f] }

\* The same, tabulated for the header rows of the reports.
matchingOf ==
    [ headers \in { headerRow(rep.layout) : rep \in Reports } |->
        [ f \in FieldSet |-> matchingIn(headers, f) ] ]

matching(headers, f) == matchingOf[headers][f]

firstOf(S) == CHOOSE k \in S : \A j \in S : k <= j

C16_FirstWins ==
    /\ \A p \in Procs :
            pc[p] # "idle" =>
                LET headers == rows[p][1]
                IN  \A f \in FieldSet :
                        /\ f \in DOMAIN hm[p].map <=> matching(headers, f) # {}
                        /\ f \in DOMAIN hm[p].map =>
                                hm[p].map[f] + 1 = firstOf(matching(headers, f))
                        /\ \A k \in matching(headers, f) :
                                /\ ~listed(hm[p].unknown, headers[k])
                                /\ ~listed(importBatch[batch[p]].unknownColumns, headers[k])
    /\ \A n \in 1..Len(stagingRow) :
            LET sheet == calls[callOf(stagingRow[n].batchId)].rows
                headers == sheet[1]
                row == sheet[stagingRow[n].rowIndex + 1]
                data == stagingRow[n].data
                unk == IF IsDefined(stagingRow[n].unknown) THEN stagingRow[n].unknown[1]
                       ELSE <<>>
            IN  /\ DOMAIN data = { f \in FieldSet : matching(headers, f) # {} }
                /\ \A f \in DOMAIN data : data[f] = trim(row[firstOf(matching(headers, f))])
                /\ \A x \in DOMAIN unk :
                        \E k \in 1..Len(headers) :
                            /\ headers[k] = x
                            /\ \A f \in FieldSet : k \notin matching(headers, f)
                            /\ unk[x] = row[k]

\* A StagingRow of a sheet with two part-number columns: the cell of the
\* second one is non-blank and is found nowhere in the StagingRow.
C16_Witness ==
    \E n \in 1..Len(stagingRow) :
        LET sheet == calls[callOf(stagingRow[n].batchId)].rows
            headers == sheet[1]
            row == sheet[stagingRow[n].rowIndex + 1]
            later == matching(headers, "partNo") \ {firstOf(matching(headers, "partNo"))}
        IN  /\ later # {}
            /\ IsDefined(stagingRow[n].unknown)
            /\ \E k \in later :
                    /\ trim(row[k]) # <<>>
                    /\ \A f \in DOMAIN stagingRow[n].data : stagingRow[n].data[f] # trim(row[k])
                    /\ \A x \in DOMAIN stagingRow[n].unknown[1] :
                            stagingRow[n].unknown[1][x] # row[k]

(***************************************************************************)
(* C17.  The numeric fields are optional.  When a row that passed          *)
(* validation is upserted, each of qty, saleAmount and costAmount of its   *)
(* canonical row is the numeric value of the cell when the column is       *)
(* mapped and the cell is not blank, and is absent, not a number such as   *)
(* 0, when the column is unmapped or the cell is blank; and a blank cell   *)
(* in a mapped numeric column does not make the row fail validation.       *)
(***************************************************************************)
C17_Upserted ==
    \A p \in Procs :
        (pc[p] = "upsert" /\ pc'[p] = "loop") =>
            LET headers == rows[p][1]
                row == rows[p][i[p] + 1]
            IN  \A c \in rowsWith(partsSalesLine', tripleOf(d[p])) :
                    \A f \in coerceNumberFields :
                        IF resolved(headers, f) /\ fieldCell(headers, row, f) # <<>>
                        THEN partsSalesLine'[c][f]
                                = Some(Number(fieldCell(headers, row, f)).value)
                        ELSE partsSalesLine'[c][f] = Undefined

C17_BlankPasses ==
    \A p \in Procs :
        ( /\ inLoop(p) /\ ~isBlankRow(r(p)) /\ Len(missingRequired[p]) = 0
          /\ \A f \in minOneFields : fieldCell(rows[p][1], r(p), f) # <<>>
          /\ \A f \in coerceNumberFields :
                resolved(rows[p][1], f) => fieldCell(rows[p][1], r(p), f) = <<>>
          /\ stepped(p) ) => pc'[p] = "upsert"

C17_BlankNumberIsAbsent == [][C17_Upserted /\ C17_BlankPasses]_vars

(***************************************************************************)
(* C18.  Counter conservation.  Between two row iterations, after the      *)
(* final update and when the import returns,                               *)
(* stagedCount = canonicalCount + errorCount; stagedCount                  *)
(* is the number of non-blank data rows gone through, which is the number  *)
(* of StagingRows of the batch; canonicalCount goes up by one exactly in   *)
(* the steps that issue an upsert, and only those change the canonical     *)
(* table; the counters returned are the counters stored on the             *)
(* ImportBatch.                                                            *)
(***************************************************************************)
C18_State ==
    /\ \A p \in Procs :
            /\ pc[p] = "loop" =>
                    /\ stagedCount[p] = canonicalCount[p] + errorCount[p]
                    /\ stagedCount[p] =
                            Cardinality({ j \in nonBlankRows(rows[p]) : j < i[p] })
                    /\ stagedCount[p] = Cardinality(stagedOf(batch[p]))
            /\ pc[p] = "upsert" =>
                    /\ stagedCount[p] = canonicalCount[p] + errorCount[p] + 1
                    /\ stagedCount[p] = Cardinality(stagedOf(batch[p]))
            /\ pc[p] = "return" =>
                    /\ stagedCount[p] = canonicalCount[p] + errorCount[p]
                    /\ stagedCount[p] = Cardinality(nonBlankRows(rows[p]))
                    /\ stagedCount[p] = Cardinality(stagedOf(batch[p]))
                    /\ importBatch[batch[p]].stagedCount = stagedCount[p]
                    /\ importBatch[batch[p]].canonicalCount = canonicalCount[p]
                    /\ importBatch[batch[p]].errorCount = errorCount[p]
    /\ \A k \in 1..Len(calls) :
            finished(k) =>
                LET ret == returnedOf(k)
                    rec == importBatch[calls[k].batchId]
                IN  /\ ret.stagedCount = ret.canonicalCount + ret.errorCount
                    /\ ret.stagedCount = Cardinality(nonBlankRows(calls[k].rows))
                    /\ ret.stagedCount = Cardinality(stagedOf(calls[k].batchId))
                    /\ rec.stagedCount = ret.stagedCount
                    /\ rec.canonicalCount = ret.canonicalCount
                    /\ rec.errorCount = ret.errorCount

C18_Step ==
    /\ \A p \in Procs :
            (canonicalCount'[p] = canonicalCount[p] + 1)
                <=> (pc[p] = "upsert" /\ pc'[p] = "loop")
    /\ partsSalesLine' # partsSalesLine =>
            \E p \in Procs : pc[p] = "upsert" /\ pc'[p] = "loop"
    /\ \A p \in Procs :
            (pc[p] = "return" /\ pc'[p] = "idle") =>
                \E k \in 1..Len(calls) :
                    /\ calls[k].batchId = batch[p] /\ finished(k)'
                    /\ calls'[k].returned[1].stagedCount = stagedCount[p]
                    /\ calls'[k].returned[1].canonicalCount = canonicalCount[p]
                    /\ calls'[k].returned[1].errorCount = errorCount[p]

C18_CounterConservation == [](C18_State) /\ [][C18_Step]_vars

\* A returned import of a sheet with a blank row, a failing row and a row
\* that was upserted.
C18_Witness ==
    \E k \in 1..Len(calls) :
        /\ finished(k)
        /\ Len(calls[k].rows) = 4
        /\ Cardinality(nonBlankRows(calls[k].rows)) = 2
        /\ returnedOf(k).stagedCount = 2
        /\ returnedOf(k).canonicalCount = 1
        /\ returnedOf(k).errorCount = 1
        /\ importBatch[calls[k].batchId].errorCount = 1

(***************************************************************************)
(* C19.  One StagingRow per non-blank data row, valid or not.  Within a    *)
(* batch the StagingRows are as many as stagedCount, their rowIndex values *)
(* are at least 1 and strictly increasing in creation order (so pairwise   *)
(* distinct), each is the position in the sheet, the header being row 0,   *)
(* of the non-blank row whose cells the StagingRow holds, so that blank    *)
(* rows leave gaps; once the import has returned every non-blank row has   *)
(* its StagingRow; and the StagingRow of a row exists when its upsert is   *)
(* issued.                                                                 *)
(***************************************************************************)
C19_State ==
    /\ \A k \in 1..Len(calls) :
            ~calls[k].threw =>
                LET sheet == calls[k].rows
                    staged == ofBatch(calls[k].batchId)
                IN  /\ \A n \in 1..Len(staged) :
                            /\ staged[n].rowIndex >= 1
                            /\ staged[n].rowIndex \in nonBlankRows(sheet)
                            /\ \A m \in 1..(n - 1) : staged[m].rowIndex < staged[n].rowIndex
                            /\ \A f \in DOMAIN staged[n].data :
                                    staged[n].data[f] =
                                        fieldCell(sheet[1], sheet[staged[n].rowIndex + 1], f)
                    /\ finished(k) =>
                            /\ { staged[n].rowIndex : n \in 1..Len(staged) } = nonBlankRows(sheet)
                            /\ Len(staged) = returnedOf(k).stagedCount
                            /\ Len(staged) = importBatch[calls[k].batchId].stagedCount
    /\ \A p \in Procs :
            /\ pc[p] # "idle" => Len(ofBatch(batch[p])) = stagedCount[p]
            /\ pc[p] = "upsert" => Cardinality(stagedAt(batch[p], i[p])) = 1

C19_Step ==
    \A p \in Procs :
        (pc[p] = "upsert" /\ pc'[p] = "loop") =>
            /\ stagingRow' = stagingRow
            /\ \E n \in 1..Len(stagingRow) :
                    /\ stagingRow[n].batchId = batch[p]
                    /\ stagingRow[n].rowIndex = i[p]
                    /\ tripleOf(stagingRow[n].data) = tripleOf(d[p])

C19_OneStagingRowPerNonBlankRow == [](C19_State) /\ [][C19_Step]_vars

\* A returned import of an invalid row, a blank row and a valid row: the
\* StagingRows are numbered 1 and 3.
C19_Witness ==
    \E k \in 1..Len(calls) :
        /\ finished(k)
        /\ Len(calls[k].rows) = 4
        /\ nonBlankRows(calls[k].rows) = {1, 3}
        /\ ~passes(calls[k].rows, 1) /\ passes(calls[k].rows, 3)
        /\ Len(ofBatch(calls[k].batchId)) = 2
        /\ ofBatch(calls[k].batchId)[1].rowIndex = 1
        /\ ofBatch(calls[k].batchId)[2].rowIndex = 3
        /\ returnedOf(k).canonicalCount = 1

====
